---- MODULE Spec2Model ----
(***************************************************************************)
(* keep-up-daily: the categorizer (src/scraper/categorizer.py), the digest *)
(* composer with its fallback synthesizer (src/scraper/curator.py) and the *)
(* run that feeds them (src/scraper/main.py, src/scraper/output.py).       *)
(*                                                                         *)
(* Text is modelled at character level where the code looks at characters  *)
(* (strip, lower, regular expressions, rfind): a text is a sequence of     *)
(* one-character strings.  Values that come back from the generative       *)
(* service are modelled as tagged JSON values.                             *)
(***************************************************************************)
EXTENDS Integers, Sequences, FiniteSets, TLC

VARIABLES
    items,            \* the list[Article] the operation works on
    GH_MODELS_TOKEN,  \* os.environ.get("GH_MODELS_TOKEN", ""): a text
    GITHUB_TOKEN,     \* os.environ.get("GITHUB_TOKEN", ""): a text
    enabled,          \* AI_CONFIG["enabled"]
    pc,               \* position of the operation: start, await, done
    calls,            \* number of requests.post calls made by create_digest
    request,          \* the condensed payload sent with the request
    outcome,          \* what the generative service did with the request
    digest,           \* the list returned by create_digest / _fallback_digest
    raw,              \* the text handed to _parse_json
    parsed,           \* what _parse_json returned (or that it raised)
    taxonomy,         \* CATEGORIES: sequence of [key, keywords] in dict order
    default_category, \* DEFAULT_CATEGORY
    fetched,          \* run: all_articles as the scrapers returned them
    category_writes,  \* run: per Article object, the assignments to a.category
    saved,            \* run: the payload save_daily_data wrote
    disk,             \* run: the *.json files of DATA_DIR, by their stems
    index             \* run: the content of DATA_DIR/index.json

vars == <<items, GH_MODELS_TOKEN, GITHUB_TOKEN, enabled, pc, calls, request,
          outcome, digest, raw, parsed, taxonomy, default_category, fetched,
          category_writes, saved, disk, index>>

\* the variables only a run of main.py uses
runvars == <<fetched, category_writes, saved, disk, index>>

-----------------------------------------------------------------------------
(* Bounds of the model *)

\* longest article list given to _fallback_digest on its own
MaxItems == 3
\* longest article list given to create_digest
MaxArticles == 2
\* article scores range over 0..MaxScore
MaxScore == 2
\* longest entry array in a service response
MaxEntries == 2
\* longest title of an article given to the categorizer
MaxTitleLen == 3
\* longest article list given to _condense_articles on its own
MaxCondensed == 2
\* longest article list given to categorize_articles twice
MaxBatch == 2
\* longest article list the scrapers return in a run
MaxFetched == 3

-----------------------------------------------------------------------------
(* Generic helpers *)

Min(a, b) == IF a < b THEN a ELSE b

\* s[:n]
Take(s, n) == SubSeq(s, 1, Min(n, Len(s)))

\* s[n:] (0-based n)
Drop(s, n) == SubSeq(s, n + 1, Len(s))

Range(s) == {s[i] : i \in DOMAIN s}

\* all sequences over S of length 0..n
SeqsUpTo(S, n) == UNION {[1..k -> S] : k \in 0..n}

RECURSIVE Concat(_)
\* the concatenation of a sequence of sequences
Concat(ss) == IF ss = <<>> THEN <<>> ELSE Head(ss) \o Concat(Tail(ss))

\* str.isspace for the characters of the model
IsSpace(c) == c \in {" ", "\n"}

RECURSIVE LStrip(_)
LStrip(s) == IF s # <<>> /\ IsSpace(Head(s)) THEN LStrip(Tail(s)) ELSE s

RECURSIVE RStrip(_)
RStrip(s) ==
    IF s # <<>> /\ IsSpace(s[Len(s)]) THEN RStrip(SubSeq(s, 1, Len(s) - 1)) ELSE s

\* str.strip()
Strip(s) == RStrip(LStrip(s))

-----------------------------------------------------------------------------
(* JSON values, as json.loads produces them *)

JInt(n)  == [t |-> "int", n |-> n]
JBool(b) == [t |-> "bool", b |-> b]
JNull    == [t |-> "null"]
\* a string used as a key or category name
JStr(s)  == [t |-> "str", s |-> s]
\* a string of running text (title, body), kept as characters
JText(cs) == [t |-> "text", cs |-> cs]
JList(l) == [t |-> "list", l |-> l]
\* a JSON object: f is a function from its keys to JSON values
JObj(f)  == [t |-> "obj", f |-> f]

-----------------------------------------------------------------------------
(* Module-level tables of curator.py *)

CATEGORY_EMOJI ==
    [c \in {"ai", "web", "devops", "languages", "frameworks", "security",
            "career", "general"} |->
        CASE c = "ai" -> "robot"
          [] c = "web" -> "globe"
          [] c = "devops" -> "cloud"
          [] c = "languages" -> "laptop"
          [] c = "frameworks" -> "puzzle"
          [] c = "security" -> "lock"
          [] c = "career" -> "rocket"
          [] c = "general" -> "pin"]

\* the default glyph of CATEGORY_EMOJI.get(cat, default)
DefaultEmoji == "pin"

_TOKEN_VARS == <<"GH_MODELS_TOKEN", "GITHUB_TOKEN">>

_CAT_LABELS ==
    [c \in {"ai", "web", "devops", "languages", "frameworks", "security",
            "career", "general"} |->
        CASE c = "ai" -> <<"AI & Machine Learning", "IA & Machine Learning">>
          [] c = "web" -> <<"Web Development", "Desenvolvimento Web">>
          [] c = "devops" -> <<"DevOps & Cloud", "DevOps & Nuvem">>
          [] c = "languages" -> <<"Programming Languages", "Linguagens de Programacao">>
          [] c = "frameworks" -> <<"Frameworks & Tools", "Frameworks & Ferramentas">>
          [] c = "security" -> <<"Security", "Seguranca">>
          [] c = "career" -> <<"Career & Community", "Carreira & Comunidade">>
          [] c = "general" -> <<"General Tech", "Tecnologia em Geral">>]

_CAT_ORDER ==
    <<"ai", "web", "devops", "languages", "frameworks", "security", "career",
      "general">>

\* AI_CONFIG["fallback_per_cat"]: the per-category cap of the fallback
FALLBACK_PER_CAT == 2

-----------------------------------------------------------------------------
(* Articles *)

DigitChars == <<"1", "2", "3", "4", "5", "6", "7", "8", "9">>

\* The i-th article of an input list, before category and score are chosen:
\* titles with and without surrounding blanks, empty, blank and non-empty
\* descriptions, no tags, one tag and more tags than the fallback shows.
BaseArticle(i) ==
    [title |-> CASE i = 2 -> <<" ", "B">>
                 [] i = 3 -> <<"C", " ">>
                 [] OTHER -> <<"A", DigitChars[i]>>,
     url |-> <<"u", DigitChars[i]>>,
     source |-> CASE i = 2 -> "hacker_news" [] i = 3 -> "reddit" [] OTHER -> "devto",
     description |-> CASE i = 2 -> <<>> [] i = 3 -> <<" ">> [] OTHER -> <<"d", DigitChars[i]>>,
     author |-> IF i = 2 THEN "" ELSE "ann",
     tags |-> CASE i = 2 -> <<>>
                [] i = 3 -> [k \in 1..7 |-> <<"t", DigitChars[k]>>]
                [] OTHER -> <<<<"t", "1">>>>,
     comments_count |-> IF i = 2 THEN 0 ELSE 3,
     category |-> "general",
     score |-> 0]

\* Article(category=c, score=s) on the i-th base article
MkArticle(i, c, s) == [BaseArticle(i) EXCEPT !.category = c, !.score = s]

\* items is an article list of length 0..n with categories from Cats and
\* scores from Scores
ItemsAmong(n, Cats, Scores) ==
    \E k \in 0..n : \E cs \in [1..k -> Cats] : \E ss \in [1..k -> Scores] :
        items = [i \in 1..k |-> MkArticle(i, cs[i], ss[i])]

-----------------------------------------------------------------------------
(* Fallback synthesizer: curator.py _fallback_digest *)

\* by_cat[cat]: the articles of one category, in input order
ByCat(articles, cat) == SelectSeq(articles, LAMBDA a : a.category = cat)

\* a sort that is not stable: a new element goes in front of the elements of
\* equal score
InsertByScoreDescUnstable(sorted, a) ==
    LET n == Cardinality({i \in DOMAIN sorted : sorted[i].score > a.score})
    IN  SubSeq(sorted, 1, n) \o <<a>> \o SubSeq(sorted, n + 1, Len(sorted))

\* the position at which list.sort(key=score, reverse=True) leaves an
\* element that came later in the list: behind every element whose score is
\* at least as high
InsertByScoreDesc(sorted, a) ==
    LET n == Cardinality({i \in DOMAIN sorted : sorted[i].score >= a.score})
    IN  SubSeq(sorted, 1, n) \o <<a>> \o SubSeq(sorted, n + 1, Len(sorted))

RECURSIVE SortByScoreDesc(_)
\* list.sort(key=lambda a: a.score, reverse=True): stable, descending
SortByScoreDesc(s) ==
    IF s = <<>> THEN <<>>
    ELSE InsertByScoreDesc(SortByScoreDesc(SubSeq(s, 1, Len(s) - 1)), s[Len(s)])

\* picks: the top FALLBACK_PER_CAT of every category of _CAT_ORDER, in that order
Picks(articles) ==
    Concat([k \in DOMAIN _CAT_ORDER |->
        Take(SortByScoreDesc(ByCat(articles, _CAT_ORDER[k])), FALLBACK_PER_CAT)])

\* {"title": a.title, "url": a.url, "source": a.source}
SourceRef(a) == [title |-> a.title, url |-> a.url, source |-> a.source]

\* One language's body: the lead (the stripped description, else a
\* placeholder naming the stripped title and the lower-cased label), the
\* context parts (tags, author) and the signal parts (score, comments, source).
FallbackBody(a, lang) ==
    LET cat    == a.category
        labels == IF cat \in DOMAIN _CAT_LABELS THEN _CAT_LABELS[cat]
                  ELSE <<cat, cat>>
        label  == IF lang = "en" THEN labels[1] ELSE labels[2]
        desc   == Strip(a.description)
        title  == Strip(a.title)
        lead   == IF desc # <<>>
                  THEN [kind |-> "description", text |-> desc, label |-> ""]
                  ELSE [kind |-> "placeholder", text |-> title, label |-> label]
        context == (IF a.tags # <<>>
                    THEN <<[part |-> "tags", tags |-> Take(a.tags, 6)]>> ELSE <<>>)
                \o (IF a.author # ""
                    THEN <<[part |-> "author", author |-> a.author]>> ELSE <<>>)
        signal == (IF a.score # 0
                   THEN <<[part |-> "points", n |-> a.score]>> ELSE <<>>)
               \o (IF a.comments_count # 0
                   THEN <<[part |-> "comments", n |-> a.comments_count]>> ELSE <<>>)
               \o <<[part |-> "via", source |-> a.source]>>
    IN  [t |-> "body", lang |-> lang, lead |-> lead, context |-> context,
         signal |-> signal]

\* an entry whose titles are the title of the article as it came
FallbackEntryUnstripped(a) ==
    [title_en |-> JText(a.title),
     title_pt |-> JText(a.title),
     body_en  |-> FallbackBody(a, "en"),
     body_pt  |-> FallbackBody(a, "pt"),
     category |-> JStr(a.category),
     emoji    |-> IF a.category \in DOMAIN CATEGORY_EMOJI
                  THEN CATEGORY_EMOJI[a.category] ELSE DefaultEmoji,
     sources  |-> <<SourceRef(a)>>]

\* the digest entry built from one picked article
FallbackEntry(a) ==
    [title_en |-> JText(Strip(a.title)),
     title_pt |-> JText(Strip(a.title)),
     body_en  |-> FallbackBody(a, "en"),
     body_pt  |-> FallbackBody(a, "pt"),
     category |-> JStr(a.category),
     emoji    |-> IF a.category \in DOMAIN CATEGORY_EMOJI
                  THEN CATEGORY_EMOJI[a.category] ELSE DefaultEmoji,
     sources  |-> <<SourceRef(a)>>]

_fallback_digest(articles) ==
    LET picks == Picks(articles)
    IN  [i \in DOMAIN picks |-> FallbackEntry(picks[i])]

-----------------------------------------------------------------------------
(* Response text.  A text is a sequence of tokens: a token is one character *)
(* [c |-> "x"], or the literal of one JSON scalar or object, kept whole     *)
(* with the value it denotes: [c |-> "@", v |-> value].                     *)

Ch(c) == [c |-> c]

\* the backtick character, written "~" in the texts of the model
Tick == "~"

\* the markdown code-fence marker: three backticks
Fence == <<Tick, Tick, Tick>>

Atom(v) == [c |-> "@", v |-> v]

\* what is left of an object literal that was cut before its closing brace
BrokenAtom == [c |-> "@cut"]

\* the tokens of a run of characters
Chars(cs) == [i \in DOMAIN cs |-> Ch(cs[i])]

IsSpaceTok(tok) == IsSpace(tok.c)

RECURSIVE LStripTok(_)
LStripTok(ts) == IF ts # <<>> /\ IsSpaceTok(Head(ts)) THEN LStripTok(Tail(ts)) ELSE ts

RECURSIVE RStripTok(_)
RStripTok(ts) ==
    IF ts # <<>> /\ IsSpaceTok(ts[Len(ts)])
    THEN RStripTok(SubSeq(ts, 1, Len(ts) - 1)) ELSE ts

\* text.strip()
StripTok(ts) == RStripTok(LStripTok(ts))

\* text.startswith(prefix), prefix a run of characters
StartsWith(ts, cs) ==
    /\ Len(ts) >= Len(cs)
    /\ \A i \in DOMAIN cs : ts[i].c = cs[i]

\* text.endswith(suffix)
EndsWith(ts, cs) ==
    /\ Len(ts) >= Len(cs)
    /\ \A i \in DOMAIN cs : ts[Len(ts) - Len(cs) + i].c = cs[i]

RECURSIVE HasList(_)
\* does the literal of this value contain the character "]"
HasList(v) ==
    CASE v.t = "list" -> TRUE
      [] v.t = "obj" -> \E k \in DOMAIN v.f : HasList(v.f[k])
      [] OTHER -> FALSE

\* does the token contain the character "]"
HasBracket(tok) == tok.c = "]" \/ (tok.c = "@" /\ HasList(tok.v))

\* an opening-fence pattern without the optional "json"
SubOpeningFenceNoTag(ts) ==
    IF ~StartsWith(ts, Fence) THEN ts ELSE LStripTok(Drop(ts, 3))

\* re.sub of the opening fence: three backticks at the start, an optional
\* "json", any whitespace
SubOpeningFence(ts) ==
    IF ~StartsWith(ts, Fence) THEN ts
    ELSE LET a == Drop(ts, 3)
             b == IF StartsWith(a, <<"j", "s", "o", "n">>) THEN Drop(a, 4) ELSE a
         IN  LStripTok(b)

\* re.sub of the closing fence: an optional newline, three backticks and
\* any whitespace at the end
SubClosingFence(ts) ==
    LET r == RStripTok(ts)
    IN  IF ~EndsWith(r, Fence) THEN ts
        ELSE LET a == SubSeq(r, 1, Len(r) - 3)
             IN  IF a # <<>> /\ a[Len(a)].c = "\n"
                 THEN SubSeq(a, 1, Len(a) - 1) ELSE a

\* text[: text.rfind("]") + 1] when a "]" is found, else text
TruncateToLastBracket(ts) ==
    LET hits == {i \in DOMAIN ts : HasBracket(ts[i])}
    IN  IF hits = {} THEN ts
        ELSE LET e == CHOOSE i \in hits : \A j \in hits : j <= i
             IN  IF ts[e].c = "]" THEN SubSeq(ts, 1, e)
                 ELSE SubSeq(ts, 1, e - 1) \o <<BrokenAtom>>

ParseFail == [ok |-> FALSE, v |-> JNull, rest |-> <<>>]

RECURSIVE ParseValue(_)
RECURSIVE ParseElems(_, _)

\* one JSON value at the head of ts (after whitespace)
ParseValue(ts) ==
    LET u == LStripTok(ts)
    IN  IF u = <<>> THEN ParseFail
        ELSE IF Head(u).c = "@" THEN [ok |-> TRUE, v |-> Head(u).v, rest |-> Tail(u)]
        ELSE IF Head(u).c = "["
             THEN LET w == LStripTok(Tail(u))
                  IN  IF w # <<>> /\ Head(w).c = "]"
                      THEN [ok |-> TRUE, v |-> JList(<<>>), rest |-> Tail(w)]
                      ELSE ParseElems(w, <<>>)
        ELSE ParseFail

\* the elements of an array after "[" or ",", up to and including "]"
ParseElems(ts, acc) ==
    LET r == ParseValue(ts)
        u == LStripTok(r.rest)
    IN  IF ~r.ok \/ u = <<>> THEN ParseFail
        ELSE IF Head(u).c = "," THEN ParseElems(Tail(u), Append(acc, r.v))
        ELSE IF Head(u).c = "]"
             THEN [ok |-> TRUE, v |-> JList(Append(acc, r.v)), rest |-> Tail(u)]
        ELSE ParseFail

\* json.loads(text): [ok |-> FALSE] stands for json.JSONDecodeError
JsonLoads(ts) ==
    LET r == ParseValue(ts)
    IN  IF r.ok /\ LStripTok(r.rest) = <<>> THEN [ok |-> TRUE, v |-> r.v]
        ELSE [ok |-> FALSE, v |-> JNull]

\* curator.py _parse_json
_parse_json(text) ==
    LET t0 == StripTok(text)
        t1 == IF StartsWith(t0, Fence)
              THEN SubClosingFence(SubOpeningFence(t0)) ELSE t0
    IN  JsonLoads(TruncateToLastBracket(t1))

-----------------------------------------------------------------------------
(* Digest composer: curator.py create_digest, _call_ai, _enrich_entries *)

\* _get_token: the first non-empty stripped value of the token variables
_get_token(gh, gt) ==
    IF Strip(gh) # <<>> THEN Strip(gh)
    ELSE IF Strip(gt) # <<>> THEN Strip(gt)
    ELSE <<>>

\* a condensation that numbers the records from 1
_condense_articles_OneBased(articles) ==
    [i \in DOMAIN articles |->
        [id |-> i,
         title |-> articles[i].title,
         source |-> articles[i].source,
         category |-> articles[i].category,
         desc |-> Take(articles[i].description, 500),
         score |-> articles[i].score,
         tags |-> Take(articles[i].tags, 6),
         comments |-> articles[i].comments_count,
         author |-> articles[i].author]]

\* a condensation that copies descriptions and tags whole
_condense_articles_Untruncated(articles) ==
    [i \in DOMAIN articles |->
        [id |-> i - 1,
         title |-> articles[i].title,
         source |-> articles[i].source,
         category |-> articles[i].category,
         desc |-> articles[i].description,
         score |-> articles[i].score,
         tags |-> articles[i].tags,
         comments |-> articles[i].comments_count,
         author |-> articles[i].author]]

\* _condense_articles: one record per article, id = 0-based position
_condense_articles(articles) ==
    [i \in DOMAIN articles |->
        [id |-> i - 1,
         title |-> articles[i].title,
         source |-> articles[i].source,
         category |-> articles[i].category,
         desc |-> Take(articles[i].description, 500),
         score |-> articles[i].score,
         tags |-> Take(articles[i].tags, 6),
         comments |-> articles[i].comments_count,
         author |-> articles[i].author]]

\* the result of a step that may raise: ok = FALSE stands for the exception
Raised == [ok |-> FALSE, v |-> <<>>]

Returned(v) == [ok |-> TRUE, v |-> v]

\* "for x in value": the elements Python iterates over, or TypeError.
\* A list yields its elements, an object its keys, a string its characters.
IterOf(v) ==
    CASE v.t = "list" -> Returned(v.l)
      [] v.t = "obj" ->
            Returned([i \in 1..Cardinality(DOMAIN v.f) |-> JStr("key")])
      [] v.t = "text" -> Returned([i \in DOMAIN v.cs |-> JText(<<v.cs[i]>>)])
      [] v.t = "str" -> Returned(<<JStr("char")>>)
      [] OTHER -> Raised

\* entry.get(key, default)
Get(entry, key, default) ==
    IF key \in DOMAIN entry.f THEN entry.f[key] ELSE default

\* isinstance(sid, int): Python's bool is a subclass of int
IsInt(v) == v.t \in {"int", "bool"}

\* the integer a JSON int or bool denotes
IntOf(v) == IF v.t = "int" THEN v.n ELSE IF v.b THEN 1 ELSE 0

\* hash(cat) succeeds: lists and dicts are unhashable
Hashable(v) == v.t \notin {"list", "obj"}

\* source ids resolved without the type and range check: an id that names
\* no article becomes a reference of its own
ResolveSourcesUnchecked(sids, articles) ==
    [i \in DOMAIN sids |->
        IF IsInt(sids[i]) /\ 0 <= IntOf(sids[i]) /\ IntOf(sids[i]) < Len(articles)
        THEN SourceRef(articles[IntOf(sids[i]) + 1])
        ELSE [title |-> <<>>, url |-> <<"?">>, source |-> "service"]]

\* the references of one entry: the valid source ids, in their order
ResolveSources(sids, articles) ==
    LET keep == SelectSeq(sids,
                    LAMBDA sid : IsInt(sid) /\ 0 <= IntOf(sid)
                                 /\ IntOf(sid) < Len(articles))
    IN  [i \in DOMAIN keep |-> SourceRef(articles[IntOf(keep[i]) + 1])]

\* one iteration of the loop of _enrich_entries
EnrichEntry(entry, articles) ==
    IF entry.t # "obj" THEN Raised
    ELSE LET cat  == Get(entry, "category", JStr("general"))
             sids == IterOf(Get(entry, "source_ids", JList(<<>>)))
         IN  IF ~sids.ok \/ ~Hashable(cat) THEN Raised
             ELSE Returned(
                    [title_en |-> Get(entry, "title_en", JText(<<>>)),
                     title_pt |-> Get(entry, "title_pt", JText(<<>>)),
                     body_en  |-> Get(entry, "body_en", JText(<<>>)),
                     body_pt  |-> Get(entry, "body_pt", JText(<<>>)),
                     category |-> cat,
                     emoji    |-> IF cat.t = "str" /\ cat.s \in DOMAIN CATEGORY_EMOJI
                                  THEN CATEGORY_EMOJI[cat.s] ELSE DefaultEmoji,
                     sources  |-> ResolveSources(sids.v, articles)])

\* an enrichment that skips the entries that raise instead of failing
_enrich_entries_SkipBad(raw_entries, articles) ==
    LET it == IterOf(raw_entries)
    IN  IF ~it.ok THEN Raised
        ELSE LET rs   == [i \in DOMAIN it.v |-> EnrichEntry(it.v[i], articles)]
                 good == SelectSeq(rs, LAMBDA r : r.ok)
             IN  Returned([i \in DOMAIN good |-> good[i].v])

\* _enrich_entries: the enriched entries, or the exception of the first
\* entry that raises
_enrich_entries(raw_entries, articles) ==
    LET it == IterOf(raw_entries)
    IN  IF ~it.ok THEN Raised
        ELSE LET rs == [i \in DOMAIN it.v |-> EnrichEntry(it.v[i], articles)]
             IN  IF \E i \in DOMAIN rs : ~rs[i].ok THEN Raised
                 ELSE Returned([i \in DOMAIN rs |-> rs[i].v])

\* What the service did with the request.  kind is one of
\*   "exception"  requests.post raised (connection error, timeout)
\*   "http_error" raise_for_status raised
\*   "bad_body"   resp.json() raised, or the body has no choices[0].message.content
\*   "content"    the body carried the text `text`
Failure(kind) == [kind |-> kind, text |-> <<>>]

Content(text) == [kind |-> "content", text |-> text]

\* _call_ai from the response onward: every exception is caught and gives []
_call_ai(o, articles) ==
    IF o.kind # "content" THEN <<>>
    ELSE LET p == _parse_json(o.text)
         IN  IF ~p.ok THEN <<>>
             ELSE LET e == _enrich_entries(p.v, articles)
                  IN  IF e.ok THEN e.v ELSE <<>>

\* create_digest after the call: "if not digest" falls back
DigestOrFallback(ai, articles) ==
    IF ai = <<>> THEN _fallback_digest(articles) ELSE ai

-----------------------------------------------------------------------------
(* Categorizer: categorizer.py *)

\* str.lower() on the letters of the model
LowerChar(c) ==
    CASE c = "A" -> "a"
      [] c = "B" -> "b"
      [] OTHER -> c

Lower(cs) == [i \in DOMAIN cs |-> LowerChar(cs[i])]

RECURSIVE JoinSpace(_)
\* " ".join of a sequence of texts
JoinSpace(ts) ==
    IF ts = <<>> THEN <<>>
    ELSE IF Len(ts) = 1 THEN ts[1]
    ELSE ts[1] \o <<" ">> \o JoinSpace(Tail(ts))

\* _build_text: title, description and the joined tags, joined by blanks,
\* lower-cased
_build_text(article) ==
    Lower(JoinSpace(<<article.title, article.description, JoinSpace(article.tags)>>))

\* the characters the regular expression class \w matches
IsWordChar(c) == c \in {"a", "b", "A", "B", "_", "1"}

\* is the character at position i of text (1-based) a word character;
\* positions outside the text are not
WordAt(text, i) == i \in DOMAIN text /\ IsWordChar(text[i])

\* \b between the characters at positions i and i + 1
BoundaryAfter(text, i) == WordAt(text, i) # WordAt(text, i + 1)

\* the keyword stands at positions i+1 .. i+Len(kw) of text, ignoring case
MatchesAt(text, kw, i) ==
    /\ i + Len(kw) <= Len(text)
    /\ \A k \in DOMAIN kw : LowerChar(text[i + k]) = LowerChar(kw[k])

\* re.search(rf"\b{re.escape(kw)}\b", text, re.IGNORECASE)
SearchWordBoundary(kw, text) ==
    \E i \in 0..Len(text) :
        /\ MatchesAt(text, kw, i)
        /\ BoundaryAfter(text, i)
        /\ BoundaryAfter(text, i + Len(kw))

\* kw.lower() in text
ContainsLower(kw, text) ==
    \E i \in 0..Len(text) :
        /\ i + Len(kw) <= Len(text)
        /\ Lower(kw) = SubSeq(text, i + 1, i + Len(kw))

\* what one keyword adds to the score of its category (lines 36-41)
KeywordPoints(kw, text) ==
    IF Len(kw) <= 3
    THEN IF SearchWordBoundary(kw, text) THEN 2 ELSE 0
    ELSE IF ContainsLower(kw, text) THEN 1 ELSE 0

RECURSIVE CategoryScore(_, _)
\* the score of one category: the inner loop over info["keywords"]
CategoryScore(keywords, text) ==
    IF keywords = <<>> THEN 0
    ELSE KeywordPoints(Head(keywords), text) + CategoryScore(Tail(keywords), text)

RECURSIVE BestFromLast(_, _, _, _)
\* a loop that also replaces the best category on an equal score
BestFromLast(cats, text, best_cat, best_score) ==
    IF cats = <<>> THEN best_cat
    ELSE LET score == CategoryScore(Head(cats).keywords, text)
         IN  IF score >= best_score
             THEN BestFromLast(Tail(cats), text, Head(cats).key, score)
             ELSE BestFromLast(Tail(cats), text, best_cat, best_score)

RECURSIVE BestFrom(_, _, _, _)
\* the loop over CATEGORIES.items() from the category at the head of cats,
\* with the best category and score so far (lines 32-45)
BestFrom(cats, text, best_cat, best_score) ==
    IF cats = <<>> THEN best_cat
    ELSE LET score == CategoryScore(Head(cats).keywords, text)
         IN  IF score > best_score
             THEN BestFrom(Tail(cats), text, Head(cats).key, score)
             ELSE BestFrom(Tail(cats), text, best_cat, best_score)

\* a categorizer that starts from the first category instead of the default
categorize_article_FirstKey(article, categories, default) ==
    BestFrom(categories, _build_text(article), "", 0)

\* categorize_article with CATEGORIES = categories, DEFAULT_CATEGORY = default
categorize_article(article, categories, default) ==
    BestFrom(categories, _build_text(article), default, 0)

\* a batch that leaves alone the articles that carry a category other than
\* the default
categorize_articles_SkipCategorized(articles, categories, default) ==
    [i \in DOMAIN articles |->
        IF articles[i].category # default THEN articles[i]
        ELSE [articles[i] EXCEPT
                !.category = categorize_article(articles[i], categories, default)]]

\* categorize_articles: every article gets its category, in place
categorize_articles(articles, categories, default) ==
    [i \in DOMAIN articles |->
        [articles[i] EXCEPT
            !.category = categorize_article(articles[i], categories, default)]]

-----------------------------------------------------------------------------
(* The run: main.py _deduplicate and run, output.py save_daily_data *)

RECURSIVE RStripSlash(_)
\* url.rstrip("/")
RStripSlash(url) ==
    IF url # <<>> /\ url[Len(url)] = "/"
    THEN RStripSlash(SubSeq(url, 1, Len(url) - 1)) ELSE url

\* a key that tells upper case from lower case
UrlKeyCaseSensitive(url) == RStripSlash(url)

\* key = a.url.rstrip("/").lower()
UrlKey(url) == Lower(RStripSlash(url))

RECURSIVE DedupFrom(_, _, _)
\* the loop of _deduplicate over the rest of the list, with the keys seen
\* and the articles kept so far
DedupFrom(articles, seen, unique) ==
    IF articles = <<>> THEN unique
    ELSE LET a   == Head(articles)
             key == UrlKey(a.url)
         IN  IF key \in seen THEN DedupFrom(Tail(articles), seen, unique)
             ELSE DedupFrom(Tail(articles), seen \cup {key}, Append(unique, a))

_deduplicate(articles) == DedupFrom(articles, {}, <<>>)

\* create_digest for the outcome o of the call, if the call is made
create_digest(articles, gh, gt, en, o) ==
    IF _get_token(gh, gt) = <<>> \/ ~en THEN _fallback_digest(articles)
    ELSE DigestOrFallback(_call_ai(o, articles), articles)

\* the payload save_daily_data writes for the date of the run
DailyPayload(articles, dig) ==
    [date |-> "today",
     digest |-> dig,
     digest_count |-> Len(dig),
     raw_article_count |-> Len(articles),
     sources |-> {articles[i].source : i \in DOMAIN articles},
     articles |-> articles]

\* Dates.  A date is the number of its day: strftime("%Y-%m-%d") writes
\* year, month and day with leading zeros, so the order of the date strings
\* that output.py compares is the order of the days.

\* run line 48: today, the UTC date at the start of the run
Today == 10

\* the stem of the data file of a date, DATA_DIR/<date>.json
DataFile(day) == [kind |-> "data", day |-> day]

\* the stem of DATA_DIR/index.json
IndexFile == [kind |-> "index"]

\* the days of the files of a directory that are not the index
DataDays(files) == {f.day : f \in {g \in files : g.kind # "index"}}

\* sorted(days, reverse=True)
SortedDescending(days) ==
    [k \in 1..Cardinality(days) |->
        CHOOSE d \in days : Cardinality({e \in days : e >= d}) = k]

\* the index update_index writes for the files of the directory
IndexOf(files) ==
    [available_dates |-> SortedDescending(DataDays(files)),
     total_days |-> Cardinality(DataDays(files))]

\* no index.json has been written
NoIndex == [available_dates |-> <<>>, total_days |-> 0 - 1]

\* the files cleanup_old_data leaves when the cutoff date is cutoff
AfterCleanup(files, cutoff) ==
    {f \in files : ~(f.kind # "index" /\ f.day < cutoff)}

-----------------------------------------------------------------------------
(* Inputs *)

RECURSIVE JoinComma(_)
\* ",".join of a sequence of texts
JoinComma(ts) ==
    IF ts = <<>> THEN <<>>
    ELSE IF Len(ts) = 1 THEN ts[1]
    ELSE ts[1] \o <<Ch(",")>> \o JoinComma(Tail(ts))

RECURSIVE RenderWith(_, _)
\* the literal of a JSON value: a list is written out in characters, with
\* the whitespace ws around its brackets and commas; any other value is one
\* token
RenderWith(v, ws) ==
    IF v.t = "list"
    THEN <<Ch("[")>> \o ws
         \o JoinComma([i \in DOMAIN v.l |-> RenderWith(v.l[i], ws) \o ws])
         \o <<Ch("]")>>
    ELSE <<Atom(v)>>

\* the compact literal, as json.dumps writes it without spaces
Render(v) == RenderWith(v, <<>>)

\* category strings of the articles given to _fallback_digest: canonical
\* ones and one that _CAT_ORDER does not list
FallbackCats == {"ai", "web", "general", "misc"}

\* category strings of the articles given to create_digest
DigestCats == {"web", "misc"}

\* scores of the articles given to create_digest
DigestScores == {0, 1}

\* values of an environment variable: unset or empty, blank, set
EnvValues(name) == {<<>>, <<" ">>, <<name, " ">>}

\* entries a service response is made of
EGood ==
    JObj([k \in {"title_en", "title_pt", "body_en", "body_pt", "category",
                 "source_ids"} |->
        CASE k = "category" -> JStr("ai")
          [] k = "source_ids" -> JList(<<JInt(0)>>)
          [] OTHER -> JText(<<"T">>)])

\* an unknown category; ids in range, too large and negative
EMixed ==
    JObj([k \in {"title_en", "category", "source_ids"} |->
        CASE k = "category" -> JStr("bogus")
          [] k = "source_ids" -> JList(<<JInt(1), JInt(5), JInt(0 - 1), JInt(0)>>)
          [] OTHER -> JText(<<"M">>)])

\* a category that is no string; ids that are no integers, and a boolean
EOdd ==
    JObj([k \in {"category", "source_ids"} |->
        CASE k = "category" -> JInt(3)
          [] OTHER -> JList(<<JText(<<"0">>), JBool(TRUE), JNull>>)])

EEmpty == JObj([k \in {} |-> JNull])

\* a category that cannot be a dictionary key
EUnhashable ==
    JObj([k \in {"category", "source_ids"} |->
        CASE k = "category" -> JList(<<>>)
          [] OTHER -> JList(<<JInt(0)>>)])

\* source_ids that cannot be iterated
ENotIterable == JObj([k \in {"source_ids"} |-> JInt(5)])

\* an array element that is no object
ENumber == JInt(7)

RawEntries == {EGood, EMixed, EOdd, EEmpty, EUnhashable, ENotIterable, ENumber}

\* "```json\n" text "\n```"
FencedJson(ts) ==
    Chars(Fence \o <<"j", "s", "o", "n", "\n">>) \o ts \o Chars(<<"\n">> \o Fence)

\* "```\n" text "\n```"
FencedPlain(ts) == Chars(Fence \o <<"\n">>) \o ts \o Chars(<<"\n">> \o Fence)

\* response texts given to create_digest: every array of up to MaxEntries
\* entries, some of them fenced or followed by prose, texts that are JSON
\* but no array, and texts that are no JSON
DigestTexts ==
    {Render(JList(es)) : es \in SeqsUpTo(RawEntries, MaxEntries)}
    \cup {FencedJson(Render(JList(<<e>>))) : e \in RawEntries}
    \cup {Render(JList(<<e>>)) \o Chars(<<" ", "o", "k">>) : e \in RawEntries}
    \cup {Render(EEmpty), Render(EGood), Render(ENumber), Render(JNull),
          Render(JText(<<>>)), Render(JText(<<"s">>)),
          <<>>, Chars(<<"n", "o">>), <<Ch("["), Atom(EGood)>>,
          <<Ch("["), Atom(EGood), Ch(",")>>,
          Render(JList(<<EGood>>)) \o Chars(<<" ", "[", "1", "]">>)}

\* elements of the arrays given to _parse_json: a number, an object with and
\* without a list inside, a nested array
ParseElements == {JInt(1), EGood, EEmpty, JList(<<JInt(1)>>)}

\* whitespace a valid array may carry inside: none, or a line break and a blank
ArraySpacings == {<<>>, Chars(<<"\n", " ">>)}

\* prose a model may append to the array, without the character "]"
ProseNoBracket ==
    {Chars(<<" ", "o", "k">>), Chars(<<"\n", "\n", "x">>), Chars(<<"x", " ", "[", "x">>),
     Chars(<<" ">> \o Fence)}

\* prose that contains the character "]"
ProseWithBracket ==
    {Chars(<<" ", "x", "]">>), Chars(<<" ", "[", "x", "]", " ", "x">>)}

\* The forms of a response around the literal ts of a valid array:
\* form is the name of the form, text the response text.
FormsOf(ts) ==
    {[form |-> "bare", text |-> ts],
     [form |-> "bare", text |-> Chars(<<"\n", " ">>) \o ts \o Chars(<<" ", "\n">>)],
     [form |-> "fenced_json", text |-> FencedJson(ts)],
     [form |-> "fenced_json", text |-> Chars(Fence \o <<"j", "s", "o", "n">>) \o ts \o Chars(Fence)],
     [form |-> "fenced", text |-> FencedPlain(ts)],
     [form |-> "fenced", text |-> Chars(<<" ">> \o Fence \o <<" ", "\n", "\n">>) \o ts
                                   \o Chars(<<"\n">> \o Fence \o <<"\n">>)]}
    \cup {[form |-> "prose", text |-> ts \o p] : p \in ProseNoBracket}
    \cup {[form |-> "prose_bracket", text |-> ts \o p] : p \in ProseWithBracket}

\* the inputs of _parse_json: a valid array, its literal and a form around it
ParseInputs ==
    UNION {
        {[array |-> JList(es), form |-> f.form, text |-> f.text] :
            f \in FormsOf(RenderWith(JList(es), ws))}
        : es \in SeqsUpTo(ParseElements, MaxEntries), ws \in ArraySpacings}

\* characters of the titles given to the categorizer: a lower-case and an
\* upper-case letter, a character that is no word character, a blank
CatAlphabet == {"a", "B", "#", " "}

CatDescriptions == {<<>>, <<"a", "b", "a", "b", "a">>, <<"b", "#", " ", "A", "b">>}

CatTags == {<<>>, <<<<"a", "b">>>>, <<<<"a">>, <<"b", "#">>>>}

\* the articles given to the categorizer, with the category of a new Article
CatArticles ==
    {[title |-> ti, url |-> <<"u", "1">>, source |-> "devto", description |-> de,
      author |-> "", tags |-> ta, comments_count |-> 0, category |-> "general",
      score |-> 0] :
        ti \in SeqsUpTo(CatAlphabet, MaxTitleLen), de \in CatDescriptions, ta \in CatTags}

Category(key, keywords) == [key |-> key, keywords |-> keywords]

\* Taxonomies: CATEGORIES in dictionary order with DEFAULT_CATEGORY.
\* Short keywords of word characters, short keywords that begin or end with
\* another character, upper-case keywords, keywords longer than 3
\* characters, categories that tie, a default category with keywords.
Taxonomies ==
    {[categories |-> <<Category("ai", <<<<"a", "b">>, <<"a", "b", "a", "b">>>>),
                       Category("web", <<<<"b", "#">>, <<"a">>>>),
                       Category("general", <<>>)>>,
      default |-> "general"],
     [categories |-> <<Category("ai", <<<<"a", "b", "a", "b">>, <<"b", "a", "b", "a">>>>),
                       Category("web", <<<<"a", "b">>>>),
                       Category("devops", <<<<"b", "a">>>>),
                       Category("general", <<>>)>>,
      default |-> "general"],
     [categories |-> <<Category("general", <<<<"a">>>>),
                       Category("ai", <<<<"A", "B">>, <<"A", "B", "A", "B">>>>)>>,
      default |-> "general"],
     [categories |-> <<Category("general", <<>>)>>,
      default |-> "general"],
     [categories |-> <<Category("web", <<<<"#", "a">>, <<"a", "#", "b", "#">>>>),
                       Category("ai", <<<<"a", "b", "a", "b">>, <<"a", "b">>, <<"a">>>>),
                       Category("other", <<>>)>>,
      default |-> "other"],
     [categories |-> <<Category("ai", <<<<"b", "a", "b">>, <<"a", "b", "#", "a", "b">>>>),
                       Category("general", <<<<"b">>>>),
                       Category("web", <<<<"B", "a", " ", "b">>, <<"a", "b">>>>)>>,
      default |-> "general"]}

\* titles of the articles given to categorize_articles twice
BatchTitles == {<<"a", "b">>, <<"a">>, <<"B", "#">>}

\* tags of those articles
BatchTags == {<<>>, <<<<"a">>, <<"b", "#">>>>}

\* the category an article carries before the call: the one of a new
\* Article, or one an earlier categorization wrote
BatchCategories == {"general", "ai"}

\* the i-th article of a list given to categorize_articles
BatchArticle(i, ti, ta, c) ==
    [title |-> ti, url |-> <<"u", DigitChars[i]>>, source |-> "devto",
     description |-> <<>>, author |-> "", tags |-> ta, comments_count |-> 0,
     category |-> c, score |-> 0]

FailureKinds == {"exception", "http_error", "bad_body"}

\* url and title of the articles the scrapers return: urls that differ in
\* letter case and trailing slashes only, and a url of its own
RunPool ==
    <<[url |-> <<"a">>, title |-> <<"a", "b">>],
      [url |-> <<"A", "/">>, title |-> <<"B">>],
      [url |-> <<"b">>, title |-> <<"a">>],
      [url |-> <<"a", "/", "/">>, title |-> <<"B">>]>>

\* scores of the articles the scrapers return
RunScores == {0, 1}

\* The i-th article the scrapers return, with the category of a new Article.
\* oid stands for the identity of the Article object.
RunArticle(i, p, s) ==
    [title |-> p.title, url |-> p.url, source |-> "devto", description |-> <<>>,
     author |-> "", tags |-> <<>>, comments_count |-> 0, category |-> "general",
     score |-> s, oid |-> i]

\* CATEGORIES and DEFAULT_CATEGORY of the run
RunTaxonomy ==
    [categories |-> <<Category("ai", <<<<"a", "b">>, <<"a", "b", "a", "b">>>>),
                      Category("web", <<<<"b", "#">>, <<"a">>>>),
                      Category("general", <<>>)>>,
     default |-> "general"]

\* DATA_DIR at the start of a run: empty, or with the files of earlier runs
\* (among them days that a retention of one or two days has passed) and the
\* index the last run wrote
RunDisks ==
    {[disk |-> {}, index |-> NoIndex],
     [disk |-> {DataFile(Today - 4), DataFile(Today - 2), DataFile(Today - 1),
                IndexFile},
      index |-> IndexOf({DataFile(Today - 4), DataFile(Today - 2),
                         DataFile(Today - 1)})]}

\* RETENTION_DAYS
RetentionDays == {1, 2}

\* what the service does in a run
RunOutcomes ==
    {Failure("exception"), Content(Render(JList(<<EGood>>))),
     Content(Render(JList(<<EMixed>>)))}

\* description lengths of the articles given to _condense_articles: none,
\* short, just below, at and above the cut
DescLengths == {0, 2, 499, 500, 501, 640}

\* numbers of tags of the articles given to _condense_articles
TagCounts == {0, 6, 7}

\* an article with a description of d characters and t tags
CondenseArticle(d, t) ==
    [title |-> <<"A">>, url |-> <<"u">>, source |-> "devto",
     description |-> [k \in 1..d |-> IF k > 500 THEN "z" ELSE "d"],
     author |-> "ann", tags |-> [k \in 1..t |-> <<"t", DigitChars[k]>>],
     comments_count |-> 0, category |-> "general", score |-> 0]

-----------------------------------------------------------------------------
(* create_digest as a state machine *)

\* values of the variables a specification does not use
NoText == [array |-> JNull, form |-> "none", text |-> <<>>]
NoOutcome == [kind |-> "none", text |-> <<>>]
NoParse == [ok |-> FALSE, v |-> [t |-> "none"]]
NoTaxonomy == <<>>
NoSaved == [date |-> "none"]

\* the state of the run variables where no run takes place
NoRun ==
    /\ fetched = <<>>
    /\ category_writes = <<>>
    /\ saved = NoSaved
    /\ disk = {}
    /\ index = NoIndex

Init ==
    /\ ItemsAmong(MaxArticles, DigestCats, DigestScores)
    /\ GH_MODELS_TOKEN \in EnvValues("p")
    /\ GITHUB_TOKEN \in EnvValues("g")
    /\ enabled \in BOOLEAN
    /\ pc = "start"
    /\ calls = 0
    /\ request = <<>>
    /\ outcome = NoOutcome
    /\ digest = <<>>
    /\ raw = NoText
    /\ parsed = NoParse
    /\ taxonomy = NoTaxonomy
    /\ default_category = "general"
    /\ NoRun

\* create_digest, lines 70-77: no token or feature disabled
CreateDigestNoToken ==
    /\ pc = "start"
    /\ _get_token(GH_MODELS_TOKEN, GITHUB_TOKEN) = <<>> \/ ~enabled
    /\ digest' = _fallback_digest(items)
    /\ pc' = "done"
    /\ UNCHANGED <<items, GH_MODELS_TOKEN, GITHUB_TOKEN, enabled, calls,
                   request, outcome, raw, parsed, taxonomy, default_category>>
    /\ UNCHANGED runvars

\* the request is sent whenever a token is found, enabled or not
SendRequestIgnoringEnabled ==
    /\ pc = "start"
    /\ _get_token(GH_MODELS_TOKEN, GITHUB_TOKEN) # <<>>
    /\ request' = [token |-> _get_token(GH_MODELS_TOKEN, GITHUB_TOKEN),
                   condensed |-> _condense_articles(items)]
    /\ calls' = calls + 1
    /\ pc' = "await"
    /\ UNCHANGED <<items, GH_MODELS_TOKEN, GITHUB_TOKEN, enabled, outcome,
                   digest, raw, parsed, taxonomy, default_category>>
    /\ UNCHANGED runvars

\* create_digest, lines 79-80, and _call_ai up to requests.post
SendRequest ==
    /\ pc = "start"
    /\ _get_token(GH_MODELS_TOKEN, GITHUB_TOKEN) # <<>>
    /\ enabled
    /\ request' = [token |-> _get_token(GH_MODELS_TOKEN, GITHUB_TOKEN),
                   condensed |-> _condense_articles(items)]
    /\ calls' = calls + 1
    /\ pc' = "await"
    /\ UNCHANGED <<items, GH_MODELS_TOKEN, GITHUB_TOKEN, enabled, outcome,
                   digest, raw, parsed, taxonomy, default_category>>
    /\ UNCHANGED runvars

\* the rest of _call_ai and of create_digest for one outcome of the call
Complete(o) ==
    /\ outcome' = o
    /\ digest' = DigestOrFallback(_call_ai(o, items), items)
    /\ pc' = "done"
    /\ UNCHANGED <<items, GH_MODELS_TOKEN, GITHUB_TOKEN, enabled, calls,
                   request, raw, parsed, taxonomy, default_category>>
    /\ UNCHANGED runvars

\* a failed call that is repeated before the fallback is taken
ServiceFailsRetrying ==
    /\ pc = "await"
    /\ \/ /\ calls < 2
          /\ calls' = calls + 1
          /\ UNCHANGED <<items, GH_MODELS_TOKEN, GITHUB_TOKEN, enabled, pc,
                         request, outcome, digest, raw, parsed, taxonomy,
                         default_category>>
          /\ UNCHANGED runvars
       \/ \E k \in FailureKinds : Complete(Failure(k))

\* the call raises, or the response carries no content
ServiceFails ==
    /\ pc = "await"
    /\ \E k \in FailureKinds : Complete(Failure(k))

\* the call returns a response with a content text
ServiceResponds ==
    /\ pc = "await"
    /\ \E text \in DigestTexts : Complete(Content(text))

Next == CreateDigestNoToken \/ SendRequest \/ ServiceFails \/ ServiceResponds

Spec == Init /\ [][Next]_vars

-----------------------------------------------------------------------------
(* _fallback_digest on its own *)

InitFallback ==
    /\ ItemsAmong(MaxItems, FallbackCats, 0..MaxScore)
    /\ GH_MODELS_TOKEN = <<>>
    /\ GITHUB_TOKEN = <<>>
    /\ enabled = FALSE
    /\ pc = "start"
    /\ calls = 0
    /\ request = <<>>
    /\ outcome = NoOutcome
    /\ digest = <<>>
    /\ raw = NoText
    /\ parsed = NoParse
    /\ taxonomy = NoTaxonomy
    /\ default_category = "general"
    /\ NoRun

\* a direct call of _fallback_digest(items)
FallbackDigest ==
    /\ pc = "start"
    /\ digest' = _fallback_digest(items)
    /\ pc' = "done"
    /\ UNCHANGED <<items, GH_MODELS_TOKEN, GITHUB_TOKEN, enabled, calls,
                   request, outcome, raw, parsed, taxonomy, default_category>>
    /\ UNCHANGED runvars

NextFallback == FallbackDigest

SpecFallback == InitFallback /\ [][NextFallback]_vars

-----------------------------------------------------------------------------
(* _parse_json on its own *)

InitParse ==
    /\ raw \in ParseInputs
    /\ parsed = NoParse
    /\ pc = "start"
    /\ items = <<>>
    /\ GH_MODELS_TOKEN = <<>>
    /\ GITHUB_TOKEN = <<>>
    /\ enabled = FALSE
    /\ calls = 0
    /\ request = <<>>
    /\ outcome = NoOutcome
    /\ digest = <<>>
    /\ taxonomy = NoTaxonomy
    /\ default_category = "general"
    /\ NoRun

\* a call of _parse_json(raw.text)
ParseJson ==
    /\ pc = "start"
    /\ parsed' = _parse_json(raw.text)
    /\ pc' = "done"
    /\ UNCHANGED <<items, GH_MODELS_TOKEN, GITHUB_TOKEN, enabled, calls,
                   request, outcome, digest, raw, taxonomy, default_category>>
    /\ UNCHANGED runvars

NextParse == ParseJson

SpecParse == InitParse /\ [][NextParse]_vars

-----------------------------------------------------------------------------
(* The categorizer on its own *)

InitCat ==
    /\ \E a \in CatArticles : items = <<a>>
    /\ \E t \in Taxonomies : taxonomy = t.categories /\ default_category = t.default
    /\ pc = "start"
    /\ GH_MODELS_TOKEN = <<>>
    /\ GITHUB_TOKEN = <<>>
    /\ enabled = FALSE
    /\ calls = 0
    /\ request = <<>>
    /\ outcome = NoOutcome
    /\ digest = <<>>
    /\ raw = NoText
    /\ parsed = NoParse
    /\ NoRun

\* a call of categorize_articles(items)
CategorizeArticles ==
    /\ pc = "start"
    /\ items' = categorize_articles(items, taxonomy, default_category)
    /\ pc' = "done"
    /\ UNCHANGED <<GH_MODELS_TOKEN, GITHUB_TOKEN, enabled, calls, request,
                   outcome, digest, raw, parsed, taxonomy, default_category>>
    /\ UNCHANGED runvars

NextCat == CategorizeArticles

SpecCat == InitCat /\ [][NextCat]_vars

-----------------------------------------------------------------------------
(* _condense_articles on its own *)

InitCondense ==
    /\ \E k \in 0..MaxCondensed :
         \E ds \in [1..k -> DescLengths] : \E ts \in [1..k -> TagCounts] :
            items = [i \in 1..k |-> CondenseArticle(ds[i], ts[i])]
    /\ GH_MODELS_TOKEN = <<"p">>
    /\ GITHUB_TOKEN = <<>>
    /\ enabled = TRUE
    /\ pc = "start"
    /\ calls = 0
    /\ request = <<>>
    /\ outcome = NoOutcome
    /\ digest = <<>>
    /\ raw = NoText
    /\ parsed = NoParse
    /\ taxonomy = NoTaxonomy
    /\ default_category = "general"
    /\ NoRun

\* create_digest line 79: condensed = _condense_articles(articles)
CondenseArticles ==
    /\ pc = "start"
    /\ request' = [token |-> _get_token(GH_MODELS_TOKEN, GITHUB_TOKEN),
                   condensed |-> _condense_articles(items)]
    /\ pc' = "done"
    /\ UNCHANGED <<items, GH_MODELS_TOKEN, GITHUB_TOKEN, enabled, calls,
                   outcome, digest, raw, parsed, taxonomy, default_category>>
    /\ UNCHANGED runvars

NextCondense == CondenseArticles

SpecCondense == InitCondense /\ [][NextCondense]_vars

-----------------------------------------------------------------------------
(* categorize_articles applied to a list, and applied again *)

InitBatch ==
    /\ \E k \in 0..MaxBatch :
         \E tis \in [1..k -> BatchTitles] : \E tas \in [1..k -> BatchTags] :
            \E cs \in [1..k -> BatchCategories] :
                items = [i \in 1..k |-> BatchArticle(i, tis[i], tas[i], cs[i])]
    /\ \E t \in Taxonomies : taxonomy = t.categories /\ default_category = t.default
    /\ pc = "start"
    /\ GH_MODELS_TOKEN = <<>>
    /\ GITHUB_TOKEN = <<>>
    /\ enabled = FALSE
    /\ calls = 0
    /\ request = <<>>
    /\ outcome = NoOutcome
    /\ digest = <<>>
    /\ raw = NoText
    /\ parsed = NoParse
    /\ NoRun

\* articles = categorize_articles(articles): the loop writes the categories
\* into the articles of the list and the list itself is returned
CategorizeAll ==
    /\ pc = "start"
    /\ items' = categorize_articles(items, taxonomy, default_category)
    /\ pc' = "done"
    /\ UNCHANGED <<GH_MODELS_TOKEN, GITHUB_TOKEN, enabled, calls, request,
                   outcome, digest, raw, parsed, taxonomy, default_category>>
    /\ UNCHANGED runvars

\* a second call on the list the first call returned
CategorizeAllAgain ==
    /\ pc = "done"
    /\ items' = categorize_articles(items, taxonomy, default_category)
    /\ pc' = "again"
    /\ UNCHANGED <<GH_MODELS_TOKEN, GITHUB_TOKEN, enabled, calls, request,
                   outcome, digest, raw, parsed, taxonomy, default_category>>
    /\ UNCHANGED runvars

NextBatch == CategorizeAll \/ CategorizeAllAgain

SpecBatch == InitBatch /\ [][NextBatch]_vars

-----------------------------------------------------------------------------
(* main.py run, from the collected articles to the cleaned data directory *)

InitRun ==
    /\ \E k \in 0..MaxFetched :
         \E ps \in [1..k -> DOMAIN RunPool] : \E ss \in [1..k -> RunScores] :
            fetched = [i \in 1..k |-> RunArticle(i, RunPool[ps[i]], ss[i])]
    /\ items = fetched
    /\ category_writes = [o \in DOMAIN fetched |-> 0]
    /\ saved = NoSaved
    /\ \E d \in RunDisks : disk = d.disk /\ index = d.index
    /\ GH_MODELS_TOKEN \in {<<>>, <<"p">>}
    /\ GITHUB_TOKEN = <<>>
    /\ enabled = TRUE
    /\ taxonomy = RunTaxonomy.categories
    /\ default_category = RunTaxonomy.default
    /\ pc = "fetched"
    /\ calls = 0
    /\ request = <<>>
    /\ outcome = NoOutcome
    /\ digest = <<>>
    /\ raw = NoText
    /\ parsed = NoParse

\* run line 65: all_articles = _deduplicate(all_articles)
Deduplicate ==
    /\ pc = "fetched"
    /\ items' = _deduplicate(items)
    /\ pc' = "deduped"
    /\ UNCHANGED <<GH_MODELS_TOKEN, GITHUB_TOKEN, enabled, calls, request,
                   outcome, digest, raw, parsed, taxonomy, default_category>>
    /\ UNCHANGED runvars

\* run line 68: all_articles = categorize_articles(all_articles); the loop
\* assigns a.category once for every element of the list
Categorize ==
    /\ pc = "deduped"
    /\ items' = categorize_articles(items, taxonomy, default_category)
    /\ category_writes' =
         [o \in DOMAIN category_writes |->
            category_writes[o] + Cardinality({i \in DOMAIN items : items[i].oid = o})]
    /\ pc' = "categorized"
    /\ UNCHANGED <<GH_MODELS_TOKEN, GITHUB_TOKEN, enabled, calls, request,
                   outcome, digest, raw, parsed, taxonomy, default_category,
                   fetched, saved, disk, index>>

\* run line 69: all_articles.sort(key=lambda a: a.score, reverse=True)
SortByScore ==
    /\ pc = "categorized"
    /\ items' = SortByScoreDesc(items)
    /\ pc' = "sorted"
    /\ UNCHANGED <<GH_MODELS_TOKEN, GITHUB_TOKEN, enabled, calls, request,
                   outcome, digest, raw, parsed, taxonomy, default_category>>
    /\ UNCHANGED runvars

\* the effect of create_digest(all_articles) for the outcome o of the call
DigestStep(o) ==
    LET called == _get_token(GH_MODELS_TOKEN, GITHUB_TOKEN) # <<>> /\ enabled
    IN  /\ digest' = create_digest(items, GH_MODELS_TOKEN, GITHUB_TOKEN, enabled, o)
        /\ calls' = IF called THEN calls + 1 ELSE calls
        /\ request' = IF called
                      THEN [token |-> _get_token(GH_MODELS_TOKEN, GITHUB_TOKEN),
                            condensed |-> _condense_articles(items)]
                      ELSE request
        /\ outcome' = IF called THEN o ELSE outcome
        /\ pc' = "digested"

\* a create_digest step after which the articles are categorized once more
RunCreateDigestRecategorizing ==
    /\ pc = "sorted"
    /\ \E o \in RunOutcomes : DigestStep(o)
    /\ items' = categorize_articles(items, taxonomy, default_category)
    /\ category_writes' =
         [o \in DOMAIN category_writes |->
            category_writes[o] + Cardinality({i \in DOMAIN items : items[i].oid = o})]
    /\ UNCHANGED <<GH_MODELS_TOKEN, GITHUB_TOKEN, enabled, raw, parsed,
                   taxonomy, default_category, fetched, saved, disk, index>>

\* run line 72: digest = create_digest(all_articles)
RunCreateDigest ==
    /\ pc = "sorted"
    /\ \E o \in RunOutcomes : DigestStep(o)
    /\ UNCHANGED <<items, GH_MODELS_TOKEN, GITHUB_TOKEN, enabled, raw, parsed,
                   taxonomy, default_category>>
    /\ UNCHANGED runvars

\* run line 74: save_daily_data(all_articles, digest=digest, date=today)
\* writes DATA_DIR/<today>.json
SaveDailyData ==
    /\ pc = "digested"
    /\ saved' = DailyPayload(items, digest)
    /\ disk' = disk \cup {DataFile(Today)}
    /\ pc' = "saved"
    /\ UNCHANGED <<items, GH_MODELS_TOKEN, GITHUB_TOKEN, enabled, calls,
                   request, outcome, digest, raw, parsed, taxonomy,
                   default_category, fetched, category_writes, index>>

\* run line 75: update_index() lists the data files and writes index.json
UpdateIndex ==
    /\ pc = "saved"
    /\ index' = IndexOf(disk)
    /\ disk' = disk \cup {IndexFile}
    /\ pc' = "indexed"
    /\ UNCHANGED <<items, GH_MODELS_TOKEN, GITHUB_TOKEN, enabled, calls,
                   request, outcome, digest, raw, parsed, taxonomy,
                   default_category, fetched, category_writes, saved>>

\* run line 77: cleanup_old_data() unlinks the data files of the days before
\* the cutoff, now - RETENTION_DAYS; now is the UTC date at that moment,
\* the day of the run or, past midnight, the next
CleanupOldData ==
    /\ pc = "indexed"
    /\ \E now \in {Today, Today + 1} : \E days \in RetentionDays :
         disk' = AfterCleanup(disk, now - days)
    /\ pc' = "cleaned"
    /\ UNCHANGED <<items, GH_MODELS_TOKEN, GITHUB_TOKEN, enabled, calls,
                   request, outcome, digest, raw, parsed, taxonomy,
                   default_category, fetched, category_writes, saved, index>>

NextRun ==
    \/ Deduplicate
    \/ Categorize
    \/ SortByScore
    \/ RunCreateDigest
    \/ SaveDailyData
    \/ UpdateIndex
    \/ CleanupOldData

SpecRun == InitRun /\ [][NextRun]_vars

-----------------------------------------------------------------------------
(* Claims *)

\* the text of the response is JSON for a list whose elements are all objects
IsListOfObjects(v) == v.t = "list" /\ \A i \in DOMAIN v.l : v.l[i].t = "obj"

\* the outcomes C1 lists: transport exception or timeout, non-success
\* status, a body or content that is not parseable JSON, a parsed value that
\* is not a list of objects, a valid but empty array
FailedOutcome(o) ==
    \/ o.kind \in FailureKinds
    \/ /\ o.kind = "content"
       /\ \/ ~_parse_json(o.text).ok
          \/ ~IsListOfObjects(_parse_json(o.text).v)
          \/ _parse_json(o.text).v = JList(<<>>)

\* C1: with a credential present and the feature enabled, whenever the
\* generative path fails in one of the listed ways, create_digest returns
\* exactly the fallback digest of the same item list.
C1_FailureFallsBack ==
    (pc = "done" /\ calls = 1 /\ FailedOutcome(outcome))
        => digest = _fallback_digest(items)

\* C1 witness: the service answered with an array holding a usable entry and
\* an element that is no object, and the non-empty fallback was returned.
C1_Witness ==
    /\ pc = "done"
    /\ outcome.kind = "content"
    /\ _parse_json(outcome.text) = [ok |-> TRUE, v |-> JList(<<EGood, ENumber>>)]
    /\ Len(items) = 2
    /\ digest # <<>>
    /\ digest = _fallback_digest(items)

\* no usable credential (both variables unset or empty) or feature disabled
NoCredential == (GH_MODELS_TOKEN = <<>> /\ GITHUB_TOKEN = <<>>) \/ ~enabled

\* C2: without a usable credential, or with the feature disabled, the
\* list create_digest returns is the fallback digest of the same items,
\* entry for entry and field for field.
C2_NoCredentialIsFallback ==
    (pc = "done" /\ NoCredential)
        => /\ Len(digest) = Len(_fallback_digest(items))
           /\ \A i \in DOMAIN digest : digest[i] = _fallback_digest(items)[i]

\* C2 witness: a token is set but the feature is disabled, and create_digest
\* returned a non-empty list.
C2_Witness ==
    /\ pc = "done"
    /\ ~enabled
    /\ _get_token(GH_MODELS_TOKEN, GITHUB_TOKEN) # <<>>
    /\ digest # <<>>

\* C3: _fallback_digest returns a non-empty list for every non-empty list
\* of well-formed items, whatever their category strings and scores, and an
\* empty list for the empty list.
C3_NonEmptyInNonEmptyOut ==
    pc = "done" => ((items # <<>>) <=> (digest # <<>>))

\* C4: every source reference of every returned entry has the url, title
\* and source of one item of the list passed to create_digest.
C4_ReferencesAreItems ==
    pc = "done" =>
        \A i \in DOMAIN digest : \A j \in DOMAIN digest[i].sources :
            \E k \in DOMAIN items :
                /\ digest[i].sources[j].url = items[k].url
                /\ digest[i].sources[j].title = items[k].title
                /\ digest[i].sources[j].source = items[k].source

\* C4 witness: the generative path returned an entry whose source ids were
\* partly out of range, and the entry kept only references to items.
C4_Witness ==
    /\ pc = "done"
    /\ outcome.kind = "content"
    /\ _parse_json(outcome.text) = [ok |-> TRUE, v |-> JList(<<EMixed>>)]
    /\ Len(items) = 2
    /\ Len(digest) = 1
    /\ digest[1].category = JStr("bogus")
    /\ Len(digest[1].sources) = 2

\* the keys of the taxonomy
TaxonomyKeys == {taxonomy[k].key : k \in DOMAIN taxonomy}

\* the score of the category at position k of the taxonomy for an article
ScoreAt(k, article) == CategoryScore(taxonomy[k].keywords, _build_text(article))

\* C5: with the default key in the taxonomy, the category categorize assigns
\* is a key of the taxonomy: a category whose score is greater than zero, or
\* the default category when no category scores above zero.
C5_ResultInTaxonomy ==
    (pc = "done" /\ default_category \in TaxonomyKeys) =>
        \A i \in DOMAIN items :
            /\ items[i].category \in TaxonomyKeys
            /\ \/ \E k \in DOMAIN taxonomy :
                    /\ taxonomy[k].key = items[i].category
                    /\ ScoreAt(k, items[i]) > 0
               \/ /\ items[i].category = default_category
                  /\ \A k \in DOMAIN taxonomy : ScoreAt(k, items[i]) = 0

\* C5 witness: an article with a title that matches no keyword was moved
\* from the category it was created with to the default category.
C5_Witness ==
    /\ pc = "done"
    /\ default_category = "other"
    /\ items[1].title # <<>>
    /\ items[1].category = "other"
    /\ \A k \in DOMAIN taxonomy : ScoreAt(k, items[1]) = 0

\* all orders of a keyword list
KeywordOrders(kws) ==
    {[i \in DOMAIN kws |-> kws[p[i]]] :
        p \in {q \in [DOMAIN kws -> DOMAIN kws] :
                 \A a, b \in DOMAIN kws : a # b => q[a] # q[b]}}

\* the taxonomies that differ from the taxonomy only in the order of the
\* keywords inside the categories
KeywordReorderings ==
    {[k \in DOMAIN taxonomy |-> Category(taxonomy[k].key, ks[k])] :
        ks \in {f \in [DOMAIN taxonomy -> UNION {KeywordOrders(taxonomy[k].keywords) :
                                                   k \in DOMAIN taxonomy}] :
                  \A k \in DOMAIN taxonomy : f[k] \in KeywordOrders(taxonomy[k].keywords)}}

\* C6: categorize returns a category with the maximum score; when the
\* maximum is greater than zero it is the first category in taxonomy order
\* with that score; the result is the same for every order of the keywords
\* inside the categories.
C6_MaxScoreFirstWins ==
    pc = "done" =>
        \A i \in DOMAIN items :
            /\ \A k \in DOMAIN taxonomy :
                 \E m \in DOMAIN taxonomy :
                    /\ taxonomy[m].key = items[i].category
                    /\ ScoreAt(m, items[i]) >= ScoreAt(k, items[i])
                    /\ (ScoreAt(m, items[i]) > 0 /\ ScoreAt(k, items[i]) = ScoreAt(m, items[i]))
                           => m <= k
            /\ \A t \in KeywordReorderings :
                 categorize_article(items[i], t, default_category) = items[i].category

\* C6 witness: two categories tie on a score above zero, a third scores less,
\* and the first of the two in taxonomy order was returned.
C6_Witness ==
    /\ pc = "done"
    /\ Len(taxonomy) = 4
    /\ taxonomy[1].key = "ai" /\ taxonomy[2].key = "web"
    /\ ScoreAt(1, items[1]) = 2
    /\ ScoreAt(2, items[1]) = 2
    /\ ScoreAt(3, items[1]) = 0
    /\ items[1].category = "ai"

\* the keyword occurs in the text at offset i, ignoring case, and the
\* character before it or the character behind it is a word character: the
\* occurrence lies inside a longer word
InsideLongerWord(text, kw, i) ==
    /\ MatchesAt(text, kw, i)
    /\ WordAt(text, i) \/ WordAt(text, i + Len(kw) + 1)

\* the keyword occurs in the text at offset i, ignoring case, with no word
\* character before it and none behind it: a standalone word
StandaloneWord(text, kw, i) ==
    /\ MatchesAt(text, kw, i)
    /\ ~WordAt(text, i)
    /\ ~WordAt(text, i + Len(kw) + 1)

\* the keywords of the taxonomy
TaxonomyKeywords == UNION {Range(taxonomy[k].keywords) : k \in DOMAIN taxonomy}

\* C7: a keyword of at most 3 characters that occurs in the text only inside
\* longer words contributes nothing; a keyword of more than 3 characters
\* contributes 1 point whenever it occurs in the text, ignoring case.
C7_ShortKeywordInsideWord ==
    pc = "done" =>
        \A a \in Range(items) : \A kw \in TaxonomyKeywords :
            LET text == _build_text(a)
                occ  == {i \in 0..Len(text) : MatchesAt(text, kw, i)}
            IN  /\ (Len(kw) <= 3 /\ occ # {}
                      /\ \A i \in occ : InsideLongerWord(text, kw, i))
                        => KeywordPoints(kw, text) = 0
                /\ (Len(kw) > 3 /\ occ # {}) => KeywordPoints(kw, text) = 1

\* C8: a keyword of at most 3 characters that the text contains as a
\* standalone word, in any letter case, contributes exactly 2 points.
C8_ShortKeywordStandalone ==
    pc = "done" =>
        \A a \in Range(items) : \A kw \in TaxonomyKeywords :
            LET text == _build_text(a)
            IN  (Len(kw) <= 3 /\ \E i \in 0..Len(text) : StandaloneWord(text, kw, i))
                    => KeywordPoints(kw, text) = 2

\* position of a category in the canonical order
CatIndex(cat) == CHOOSE k \in DOMAIN _CAT_ORDER : _CAT_ORDER[k] = cat

\* the position in the input list of the item an entry was built from
\* (the urls of an input list are pairwise distinct)
ItemOf(entry) == CHOOSE k \in DOMAIN items : items[k].url = entry.sources[1].url

\* C9: the entries of _fallback_digest are ordered by canonical category
\* order, then by descending score, and items of one category with equal
\* scores keep their input order.
C9_FallbackOrder ==
    pc = "done" =>
        \A i, j \in DOMAIN digest :
            i < j =>
                LET a == items[ItemOf(digest[i])]
                    b == items[ItemOf(digest[j])]
                IN  \/ CatIndex(a.category) < CatIndex(b.category)
                    \/ /\ a.category = b.category
                       /\ \/ a.score > b.score
                          \/ a.score = b.score
                             /\ ItemOf(digest[i]) < ItemOf(digest[j])

\* C9 witness: two categories out of canonical order in the input, and two
\* items of one category with equal scores behind a lower-scored one.
C9_Witness ==
    /\ pc = "done"
    /\ Len(items) = 3
    /\ Len(digest) = 3
    /\ items[1].category = "general" /\ items[1].score = 2
    /\ items[2].category = "ai" /\ items[2].score = 1
    /\ items[3].category = "ai" /\ items[3].score = 1
    /\ ItemOf(digest[1]) = 2 /\ ItemOf(digest[2]) = 3 /\ ItemOf(digest[3]) = 1

\* C10 as stated: for every valid array, the parser returns the entries of
\* the array for the bare array, for the array between code-fence markers
\* (with or without the json tag), and for the array followed by arbitrary
\* prose.
C10_AnyProse ==
    pc = "done" => parsed = [ok |-> TRUE, v |-> raw.array]

\* C10 amended: the same, for prose that does not contain the character "]".
C10_ProseWithoutBracket ==
    (pc = "done" /\ raw.form # "prose_bracket")
        => parsed = [ok |-> TRUE, v |-> raw.array]

\* C10 witness: a fenced array with the json tag, with whitespace inside
\* and an object that holds a list, was parsed to its two entries.
C10_Witness ==
    /\ pc = "done"
    /\ raw.form = "fenced_json"
    /\ raw.array = JList(<<EGood, JInt(1)>>)
    /\ Len(raw.text) > 12
    /\ parsed = [ok |-> TRUE, v |-> JList(<<EGood, JInt(1)>>)]

\* create_digest returned the entries enriched from the service response
Generative ==
    /\ pc = "done"
    /\ outcome.kind = "content"
    /\ _call_ai(outcome, items) # <<>>

\* the entries parsed from the response text
ParsedEntries == _parse_json(outcome.text).v.l

\* the source_ids value of a parsed entry
SourceIdsOf(entry) == Get(entry, "source_ids", JList(<<>>))

\* a JSON integer that is the position of an item
IntegerInRange(sid) == sid.t = "int" /\ 0 <= sid.n /\ sid.n < Len(items)

\* C11: on the generative path there are as many enriched entries as parsed
\* entries, and the references of an entry are those of the source ids that
\* are integers within 0..len(items)-1, in their original order; every
\* other id removes only its own reference.
C11_InvalidIdsDropOnlyThemselves ==
    Generative =>
        /\ Len(digest) = Len(ParsedEntries)
        /\ \A i \in DOMAIN digest :
             LET sids == SourceIdsOf(ParsedEntries[i])
             IN  sids.t = "list" =>
                    LET keep == SelectSeq(sids.l, IntegerInRange)
                    IN  digest[i].sources =
                            [j \in DOMAIN keep |-> SourceRef(items[keep[j].n + 1])]

\* the keys of the taxonomy as curator.py lists them
CanonicalCategories == {JStr(_CAT_ORDER[k]) : k \in DOMAIN _CAT_ORDER}

\* C12: every entry create_digest returns, on the generative path and on the
\* fallback path, has a category that is one of the taxonomy keys.
C12_CategoryIsTaxonomyKey ==
    pc = "done" => \A i \in DOMAIN digest : digest[i].category \in CanonicalCategories

\* C13: one create_digest invocation calls the service at most once: not at
\* all without a credential or with the feature disabled, exactly once
\* otherwise; after a failed call the fallback is returned with no second call.
C13_AtMostOneCall ==
    /\ calls <= 1
    /\ pc = "await" => calls = 1
    /\ pc = "done" =>
         /\ calls = IF _get_token(GH_MODELS_TOKEN, GITHUB_TOKEN) = <<>> \/ ~enabled
                    THEN 0 ELSE 1
         /\ (calls = 1 /\ outcome.kind \in FailureKinds)
                => digest = _fallback_digest(items)

\* C13 witness: the one call raised, and the non-empty fallback was returned
\* after that single call.
C13_Witness ==
    /\ pc = "done"
    /\ outcome.kind = "exception"
    /\ calls = 1
    /\ digest # <<>>
    /\ digest = _fallback_digest(items)

\* the condensed record that carries the id k
CondensedWithId(k) ==
    CHOOSE r \in Range(request.condensed) : r.id = k

\* C16: the request carries one condensed record per item, in input order,
\* with the 0-based position of the item as id; an integer source id k in
\* range is resolved to the item at position k of the list given to
\* create_digest, the item whose condensed record carried the id k.
C16_IdsArePositions ==
    (pc \in {"await", "done"} /\ calls = 1) =>
        /\ Len(request.condensed) = Len(items)
        /\ \A i \in DOMAIN items :
             /\ request.condensed[i].id = i - 1
             /\ request.condensed[i].title = items[i].title
             /\ request.condensed[i].source = items[i].source
             /\ request.condensed[i].score = items[i].score
        /\ Generative =>
             \A e \in DOMAIN digest :
                LET sids == SourceIdsOf(ParsedEntries[e])
                IN  sids.t = "list" =>
                       \A s \in DOMAIN sids.l :
                          IntegerInRange(sids.l[s]) =>
                             \E j \in DOMAIN digest[e].sources :
                                /\ digest[e].sources[j] = SourceRef(items[sids.l[s].n + 1])
                                /\ digest[e].sources[j].title =
                                       CondensedWithId(sids.l[s].n).title
                                /\ digest[e].sources[j].source =
                                       CondensedWithId(sids.l[s].n).source

\* C16 witness: two items were condensed with the ids 0 and 1, the service
\* named the ids 1 and 0 in that order, and the entry refers to the second
\* item and then to the first.
C16_Witness ==
    /\ Generative
    /\ Len(items) = 2
    /\ request.condensed[1].id = 0
    /\ request.condensed[2].id = 1
    /\ ParsedEntries = <<EMixed>>
    /\ digest[1].sources = <<SourceRef(items[2]), SourceRef(items[1])>>

\* the positions of the items of one category
ItemsOfCategory(cat) == {k \in DOMAIN items : items[k].category = cat}

\* the positions of the entries of one category
EntriesOfCategory(cat) == {i \in DOMAIN digest : digest[i].category = JStr(cat)}

\* the categories that occur among the items
ItemCategories == {items[k].category : k \in DOMAIN items}

RECURSIVE SumOfCaps(_)
\* the sum over the categories of S of min(N, number of items of the category)
SumOfCaps(S) ==
    IF S = {} THEN 0
    ELSE LET c == CHOOSE x \in S : TRUE
         IN  Min(FALLBACK_PER_CAT, Cardinality(ItemsOfCategory(c))) + SumOfCaps(S \ {c})

\* C18: _fallback_digest has, for each category of the items, exactly
\* min(N, number of items of the category) entries, built from the
\* highest-scored items of the category; no item yields two entries, a
\* category without items yields none, and the number of entries is the sum
\* of the per-category counts.
C18_TopNPerCategory ==
    pc = "done" =>
        /\ \A cat \in ItemCategories :
             Cardinality(EntriesOfCategory(cat)) =
                 Min(FALLBACK_PER_CAT, Cardinality(ItemsOfCategory(cat)))
        /\ \A i \in DOMAIN digest : \A k \in DOMAIN items :
             (/\ items[k].category = items[ItemOf(digest[i])].category
              /\ \A j \in DOMAIN digest : ItemOf(digest[j]) # k)
                 => items[k].score <= items[ItemOf(digest[i])].score
        /\ \A i, j \in DOMAIN digest : i # j => ItemOf(digest[i]) # ItemOf(digest[j])
        /\ \A i \in DOMAIN digest : digest[i].category.s \in ItemCategories
        /\ Len(digest) = SumOfCaps(ItemCategories)

\* C19 as stated: every entry of _fallback_digest has one reference, with
\* the title, url and source of the item it was built from, the category of
\* that item, and both titles equal to the original title of that item.
C19_TitlesAreOriginal ==
    pc = "done" =>
        \A i \in DOMAIN digest :
            \E k \in DOMAIN items :
                /\ digest[i].sources = <<SourceRef(items[k])>>
                /\ digest[i].category = JStr(items[k].category)
                /\ digest[i].title_en = JText(items[k].title)
                /\ digest[i].title_pt = JText(items[k].title)

\* C19 amended: the same, with both titles equal to the title of that item
\* without its leading and trailing whitespace; the reference keeps the
\* title as it came.
C19_TitlesAreStripped ==
    pc = "done" =>
        \A i \in DOMAIN digest :
            \E k \in DOMAIN items :
                /\ Len(digest[i].sources) = 1
                /\ digest[i].sources[1].title = items[k].title
                /\ digest[i].sources[1].url = items[k].url
                /\ digest[i].sources[1].source = items[k].source
                /\ digest[i].category = JStr(items[k].category)
                /\ digest[i].title_en = JText(Strip(items[k].title))
                /\ digest[i].title_pt = digest[i].title_en

\* C19 witness: an item whose title begins with a blank gave an entry with
\* the title without the blank and a reference with the title as it came.
C19_Witness ==
    /\ pc = "done"
    /\ Len(items) = 2
    /\ items[2].title = <<" ", "B">>
    /\ \E i \in DOMAIN digest :
         /\ digest[i].sources = <<SourceRef(items[2])>>
         /\ digest[i].title_en = JText(<<"B">>)
         /\ digest[i].title_pt = JText(<<"B">>)

RECURSIVE CappedSize(_)
\* the part of the payload that condensation caps: the characters of the
\* descriptions and the tags of all records
CappedSize(condensed) ==
    IF condensed = <<>> THEN 0
    ELSE Len(Head(condensed).desc) + Len(Head(condensed).tags)
             + CappedSize(Tail(condensed))

\* every record has at most 500 characters of description and at most 6
\* tags: the first ones of its item
RecordsAreCapped ==
    /\ Len(request.condensed) = Len(items)
    /\ \A i \in DOMAIN items :
         LET r == request.condensed[i]
         IN  /\ Len(r.desc) <= 500
             /\ Len(r.desc) = Min(500, Len(items[i].description))
             /\ \A k \in DOMAIN r.desc : r.desc[k] = items[i].description[k]
             /\ Len(r.tags) <= 6
             /\ Len(r.tags) = Min(6, Len(items[i].tags))
             /\ \A k \in DOMAIN r.tags : r.tags[k] = items[i].tags[k]

C14_BatchContract ==
    [][pc' # pc =>
        /\ Len(items') = Len(items)
        /\ \A i \in DOMAIN items :
             /\ [items'[i] EXCEPT !.category = items[i].category] = items[i]
             /\ \A c \in BatchCategories \cup TaxonomyKeys :
                  categorize_article([items[i] EXCEPT !.category = c],
                                     taxonomy, default_category)
                      = items'[i].category
        /\ pc = "done" => items' = items]_vars

\* C14 witness: after the second call, a list of two items carries two
\* different categories, one of them a category no item was given at first.
C14_Witness ==
    /\ pc = "again"
    /\ Len(items) = 2
    /\ items[1].category = "web"
    /\ items[2].category = "ai"
    /\ items[1].url = <<"u", "1">>
    /\ items[2].title = <<"a", "b">>

\* the Article objects that are in the list of the run
Survivors == {items[i].oid : i \in DOMAIN items}

\* the article as the scrapers returned it, with the category the
\* Categorizer gives it
Categorized(a) ==
    [a EXCEPT !.category = categorize_article(a, taxonomy, default_category)]

\* C15: in a run no category is written before the Categorizer step; from
\* that step on, so when create_digest is invoked, every item that survived
\* deduplication has had its category written exactly once, and through
\* sorting, create_digest, the fallback and the save every item has the
\* fields it had after that write.
C15_CategoryWrittenOnce ==
    /\ pc \in {"fetched", "deduped"} =>
         \A o \in DOMAIN category_writes : category_writes[o] = 0
    /\ pc \in {"categorized", "sorted", "digested", "saved", "indexed", "cleaned"} =>
         /\ \A i \in DOMAIN items :
              /\ category_writes[items[i].oid] = 1
              /\ items[i] = Categorized(fetched[items[i].oid])
         /\ \A o \in DOMAIN category_writes \ Survivors : category_writes[o] = 0
    /\ pc \in {"saved", "indexed", "cleaned"} => saved.articles = items

\* C15 witness: a run that dropped a duplicate, gave two items categories
\* other than the one they came with, moved the higher-scored item to the
\* front, called the service and saved.
C15_Witness ==
    /\ pc = "saved"
    /\ Len(fetched) = 3
    /\ Len(items) = 2
    /\ items[1].oid = 2 /\ items[2].oid = 1
    /\ items[1].category = "web" /\ items[2].category = "ai"
    /\ fetched[1].category = "general" /\ fetched[2].category = "general"
    /\ calls = 1
    /\ digest # <<>>
    /\ category_writes = <<1, 1, 0>>

\* the url in lower case without trailing slashes
NormalizedUrl(url) == Lower(RStripSlash(url))

\* the positions in the collected list of the first articles of each
\* normalized url
FirstOccurrences ==
    {i \in DOMAIN fetched :
        \A j \in 1..(i - 1) : NormalizedUrl(fetched[j].url) # NormalizedUrl(fetched[i].url)}

\* the k-th smallest element of a set of numbers
KthOf(S, k) == CHOOSE i \in S : Cardinality({j \in S : j <= i}) = k

\* C20: the list given to the categorizer and to create_digest has no two
\* items with the same normalized url; deduplication keeps exactly the first
\* article of every normalized url, in the order of the collected list.
C20_Deduplicated ==
    pc # "fetched" =>
        /\ \A i, j \in DOMAIN items :
             i # j => NormalizedUrl(items[i].url) # NormalizedUrl(items[j].url)
        /\ Survivors = FirstOccurrences
        /\ Len(items) = Cardinality(FirstOccurrences)
        /\ pc = "deduped" =>
             items = [k \in 1..Cardinality(FirstOccurrences) |->
                         fetched[KthOf(FirstOccurrences, k)]]

\* C20 witness: of three collected articles the third has the url of the
\* first in upper case with a trailing slash, and the first two were kept.
C20_Witness ==
    /\ pc = "deduped"
    /\ Len(fetched) = 3
    /\ fetched[1].url = <<"a">>
    /\ fetched[2].url = <<"b">>
    /\ fetched[3].url = <<"A", "/">>
    /\ items = <<fetched[1], fetched[2]>>

\* C21: when the run has completed, every date of available_dates in
\* index.json names a data file that is on disk, total_days is the number
\* of data files on disk, index.json is on disk, and so is the data file
\* this run wrote.
C21_IndexMatchesDisk ==
    pc = "cleaned" =>
        /\ \A k \in DOMAIN index.available_dates :
             DataFile(index.available_dates[k]) \in disk
        /\ index.total_days = Cardinality(DataDays(disk))
        /\ IndexFile \in disk
        /\ DataFile(Today) \in disk

====
